---- MODULE Spec2Model ----
(***************************************************************************)
(* The validation entrypoints of ai-readiness-assessment as one state      *)
(* machine.  A run is one call of an entrypoint:                           *)
(*   "security"  security-validation.py         test_security              *)
(*   "api"       security-validation-simple.py  test_security_apis         *)
(*   "accessibility"  accessibility-validation.py  test_accessibility      *)
(*   "performance"    performance-validation.py    test_performance        *)
(*   "dev"            test-manual-dev.py           test_development_mode   *)
(*   "production"     test-production.py           test_production         *)
(*   "lighthouse"     lighthouse-audit.py          run_lighthouse_audit    *)
(* The target application, its server and the browser are the environment: *)
(* every call on them either raises or returns one of the values it can    *)
(* return.  Fixed-duration sleeps (page.wait_for_timeout, print) neither   *)
(* raise nor change the state.                                             *)
(***************************************************************************)
EXTENDS Integers, Sequences, FiniteSets, TLC

VARIABLES
    prog,            \* the entrypoint this run executes
    pc,              \* position of the run in the entrypoint
    browser,         \* "none" | "open" | "closed"
    closeCount,      \* number of browser.close() calls
    exc,             \* "none", or the place the propagating exception was raised
    results,         \* the results dict
    artifact,        \* the JSON file at the fixed report path
    serverLimit,     \* environment: requests the server accepts per window
    serverCount,     \* environment: requests accepted in the current window
    i,               \* loop variable of the rate-limit loop
    rate_limit_hit,  \* the flag of the same name
    sent,            \* payload numbers n of the 'Test n' requests sent so far
    first429,        \* 1-based position of the request answered 429, 0 if none
    retryAfter,      \* whether that 429 response carried a Retry-After header
    reqFailed,       \* some request of this run raised or timed out
    k,               \* number of finished iterations of the current for loop
    detected_count,  \* the counter of the same name
    ran,             \* the probes this run has entered
    page,            \* environment: the DOM of the loaded page
    focusable_elements, \* the list of the same name
    timing,          \* load_time, focus_time, type_time, click_time
    resources,       \* the responses the 'response' listener collected
    observed,        \* what each injection attempt was answered with
    response,        \* the answer to the malformed request
    executed,        \* the scenario steps started so far, in order
    caught,          \* the exceptions the top-level handler caught, by origin
    errorShots,      \* screenshots the top-level handler attempted
    verdict,         \* the load and interaction verdicts printed
    categories,      \* the categories of the audit report, in file order
    classified,      \* the result lines printed for the categories
    returned,        \* <<>>, or the value run_lighthouse_audit returned
    dialog,          \* environment: the consent dialog the script found
    accept_clicks,   \* clicks on the Accept button
    summary,         \* the lines of the SECURITY SUMMARY printed
    issued,          \* the chat requests of the PII and injection probes
    tool             \* how the version check, the audit and the report read ended

vars == <<prog, pc, browser, closeCount, exc, results, artifact, serverLimit,
          serverCount, i, rate_limit_hit, sent, first429, retryAfter,
          reqFailed, k, detected_count, ran, page, focusable_elements, timing,
          resources, observed, response, executed, caught, errorShots,
          verdict, categories, classified, returned, dialog, accept_clicks,
          summary, issued, tool>>

sessionVars == <<browser, closeCount>>
serverVars  == <<serverLimit, serverCount>>
rateVars    == <<i, rate_limit_hit, sent, first429, retryAfter>>
loopVars    == <<k, detected_count>>
reportVars  == <<results, artifact>>
accVars     == <<page, focusable_elements>>
perfVars    == <<timing, resources>>
auditVars   == <<categories, classified, returned>>

----------------------------------------------------------------------------
(* Python dicts: functions from key strings to values.                     *)

EmptyDict == [key \in {} |-> TRUE]

Put(d, key, v) == [x \in (DOMAIN d) \cup {key} |-> IF x = key THEN v ELSE d[x]]

\* results[outer][inner] = v
PutIn(d, outer, inner, v) == Put(d, outer, Put(d[outer], inner, v))

\* Python's None where the other values of the slot are lists
None == <<>>

----------------------------------------------------------------------------
(* Program constants.                                                      *)

\* range(35)
MaxRequests == 35

\* "Limit is 30 per minute"
ServerLimit == 30

BrowserProgs == {"security", "accessibility", "performance", "dev", "production"}

Progs == BrowserProgs \cup {"api", "lighthouse"}

SecurityProgs == {"security", "api"}

SecurityKeys == {"rate_limiting", "pii_sanitization", "prompt_injection", "error_handling"}

AccessibilityKeys == {"keyboard_navigation", "aria_labels", "semantic_html", "focus_management"}

PerformanceKeys == {"bundle_size", "page_load", "interaction", "lighthouse"}

\* results as constructed at the top of the entrypoint (the two scenario
\* scripts keep none)
InitialResults(p) ==
    CASE p = "security"      -> [key \in SecurityKeys |-> EmptyDict]
      [] p = "accessibility" -> [key \in AccessibilityKeys |-> EmptyDict]
      [] p = "performance"   -> [key \in PerformanceKeys |-> EmptyDict]
      [] OTHER               -> EmptyDict

\* the smallest limit of a server a run may face
SmallLimit == 0

\* the limits of the servers a run may face: the smallest one, the
\* documented one, and one the 35 requests cannot exhaust
Limits == {SmallLimit, ServerLimit, MaxRequests + 1}


----------------------------------------------------------------------------
(* The environment.                                                        *)

\* the status the chat endpoint may answer a well-formed request with: 429
\* once the window is used up, 200 before, and a server error at any time
ChatStatuses == (IF serverCount >= serverLimit THEN {429} ELSE {200}) \cup {500}

\* the server's count after it answered `status`
Accepted(status) == IF status = 200 THEN serverCount + 1 ELSE serverCount

----------------------------------------------------------------------------
(* Exceptions.                                                             *)

\* Catches with the rate-limit and injection requests left unguarded
CatchesOnlyErrorProbes(p, probe) == probe \in {"error_handling", "missing_fields"}

\* the probes whose requests sit in a try/except Exception of their own
Catches(p, probe) ==
    IF p = "security"
    THEN probe \in {"rate_limiting", "error_handling"}
    ELSE probe \in {"rate_limiting", "prompt_injection", "error_handling", "missing_fields"}

\* an exception leaves the try block of a browser entrypoint for its
\* except clause; the API entrypoint has none and the exception leaves it
Propagate(origin) ==
    /\ exc' = origin
    /\ pc' = IF prog \in BrowserProgs THEN "except" ELSE "raised"

----------------------------------------------------------------------------
(* Session: launch, context and page, page load, consent dialog, teardown. *)

\* p.chromium.launch(headless=True)
Launch ==
    /\ pc = "launch"
    /\ \/ /\ browser' = "open"
          /\ pc' = "setup"
          /\ exc' = exc
       \/ /\ browser' = browser
          /\ exc' = "launch"
          /\ pc' = "raised"
    /\ UNCHANGED <<prog, tool, issued, summary, accept_clicks, dialog,
                   auditVars, verdict, errorShots, caught, executed, response,
                   observed, closeCount, reqFailed, ran, serverVars, rateVars,
                   loopVars, reportVars, accVars, perfVars>>

\* browser.new_context(); context.new_page(): before the try statement
Setup ==
    /\ pc = "setup"
    /\ \/ /\ pc' = "goto"
          /\ exc' = exc
       \/ /\ exc' = "setup"
          /\ pc' = "raised"
    /\ UNCHANGED <<prog, tool, issued, summary, accept_clicks, dialog,
                   auditVars, verdict, errorShots, caught, executed, response,
                   observed, reqFailed, ran, sessionVars, serverVars,
                   rateVars, loopVars, reportVars, accVars, perfVars>>

\* the durations, in microseconds, a page load may take
LoadTimes == {2999999, 3000000, 4999999, 5000000}

\* round(x, 2) of a duration given in microseconds, x in seconds: hundredths
\* of a second
RoundSeconds(us) == (us + 5000) \div 10000

\* round(x, 2) of a duration given in microseconds, x in milliseconds:
\* hundredths of a millisecond
RoundMillis(us) == (us + 5) \div 10

\* the responses a navigation may produce, as the listener records them
ResourceLists ==
    { <<>>,
      << [status |-> 200, size |-> 204800, type |-> "application/javascript"],
         [status |-> 200, size |-> 10240,  type |-> "text/css"],
         [status |-> 200, size |-> 4096,   type |-> "text/html"],
         [status |-> 304, size |-> 0,      type |-> "application/javascript"] >> }

\* LoadVerdict with 3.0 s still a pass
LoadVerdictInclusive(load_time) ==
    IF load_time <= 3000000 THEN "pass"
    ELSE IF load_time < 5000000 THEN "warn"
    ELSE "fail"

\* if load_time < 3.0 / elif load_time < 5.0 / else, load_time in microseconds
LoadVerdict(load_time) ==
    IF load_time < 3000000 THEN "pass"
    ELSE IF load_time < 5000000 THEN "warn"
    ELSE "fail"

\* the first statement after the page load
AfterGoto(p) ==
    CASE p = "performance" -> "bundle_size"
      [] p = "dev"         -> "initial_load"
      [] p = "production"  -> "scenario"
      [] OTHER             -> "consent"

\* page.goto(..., wait_until='networkidle'); page.wait_for_timeout(2000).
\* The performance entrypoint times the call and stores the rounded time.
Goto ==
    /\ pc = "goto"
    /\ \/ /\ prog # "performance"
          /\ pc' = AfterGoto(prog)
          /\ UNCHANGED <<exc, results, timing, resources, verdict>>
       \/ /\ prog = "performance"
          /\ \E load_time \in LoadTimes, rs \in ResourceLists :
                /\ timing' = [timing EXCEPT !.load_time = load_time]
                /\ verdict' = [verdict EXCEPT !.load = LoadVerdict(load_time)]
                /\ resources' = rs
                /\ results' = PutIn(results, "page_load", "total_time",
                                    RoundSeconds(load_time))
          /\ pc' = AfterGoto(prog)
          /\ exc' = exc
       \/ /\ Propagate("page_load")
          /\ UNCHANGED <<results, timing, resources, verdict>>
    /\ UNCHANGED <<prog, tool, issued, summary, accept_clicks, dialog,
                   auditVars, errorShots, caught, executed, response,
                   observed, reqFailed, ran, k, detected_count, artifact,
                   sessionVars, serverVars, rateVars, accVars>>

\* dev: screenshot 01-initial-load.png and page.title()
InitialLoad ==
    /\ pc = "initial_load"
    /\ \/ /\ pc' = "consent"
          /\ exc' = exc
       \/ Propagate("initial_load")
    /\ UNCHANGED <<prog, tool, issued, summary, accept_clicks, dialog,
                   auditVars, verdict, errorShots, caught, executed, response,
                   observed, reqFailed, ran, sessionVars, serverVars,
                   rateVars, loopVars, reportVars, accVars, perfVars>>

\* the first statement after the consent block
AfterConsent(p) ==
    CASE p = "security"      -> "rate_limiting"
      [] p = "accessibility" -> "keyboard_navigation"
      [] OTHER               -> "scenario"

\* what page.locator('[role="dialog"]').first may be: no such element, a
\* hidden one, a visible one on a page with an Accept button, a visible one
\* on a page without
Dialogs == {"absent", "hidden", "visible", "visible_without_accept"}

\* if consent_banner.count() > 0 and consent_banner.is_visible(): click the
\* first button with the text Accept (dev takes a screenshot first)
Consent ==
    /\ pc = "consent"
    /\ \E found \in Dialogs :
          /\ dialog' = found
          /\ \/ \* the condition is false: nothing is clicked
                /\ found \in {"absent", "hidden"}
                /\ pc' = AfterConsent(prog)
                /\ UNCHANGED <<exc, accept_clicks>>
             \/ \* the Accept button is clicked
                /\ found = "visible"
                /\ accept_clicks' = accept_clicks + 1
                /\ pc' = AfterConsent(prog)
                /\ exc' = exc
             \/ \* the screenshot raised, or the click raised: with no Accept
                \* button on the page it times out waiting for one
                /\ found \in {"visible", "visible_without_accept"}
                /\ Propagate("consent")
                /\ accept_clicks' = accept_clicks
    /\ k' = 0
    /\ UNCHANGED <<prog, tool, issued, summary, auditVars, verdict,
                   errorShots, caught, executed, response, observed,
                   reqFailed, ran, detected_count, sessionVars, serverVars,
                   rateVars, reportVars, accVars, perfVars>>

\* the entrypoints whose except clause takes a screenshot before re-raising
ScreenshotOnError(p) == p \in {"dev", "production"}

\* except Exception as e: print(...); [page.screenshot(...);] raise
Except ==
    /\ pc = "except"
    /\ caught' = Append(caught, exc)
    /\ errorShots' = IF ScreenshotOnError(prog) THEN errorShots + 1 ELSE errorShots
    /\ \/ /\ exc' = exc
       \/ /\ ScreenshotOnError(prog)
          /\ exc' = "error_screenshot"
    /\ pc' = "finally"
    /\ UNCHANGED <<prog, tool, issued, summary, accept_clicks, dialog,
                   auditVars, verdict, executed, response, observed,
                   reqFailed, ran, sessionVars, serverVars, rateVars,
                   loopVars, reportVars, accVars, perfVars>>

\* finally: browser.close()
Finally ==
    /\ pc = "finally"
    /\ browser' = "closed"
    /\ closeCount' = closeCount + 1
    /\ pc' = IF exc = "none" THEN "done" ELSE "raised"
    /\ UNCHANGED <<prog, tool, issued, summary, accept_clicks, dialog,
                   auditVars, verdict, errorShots, caught, executed, response,
                   observed, exc, reqFailed, ran, serverVars, rateVars,
                   loopVars, reportVars, accVars, perfVars>>

----------------------------------------------------------------------------
(* Rate-limit probe (both security entrypoints).                           *)

\* if response.status == 429
RateLimited(status) == status = 429

\* i + 1, the value stored as requests_before_limit
RecordedIndex(idx) == idx + 1

\* the rate_limiting entry once a 429 was seen at loop index idx
TriggeredEntry(p, res, idx) ==
    IF p = "security"
    THEN PutIn(PutIn(res, "rate_limiting", "triggered", TRUE),
               "rate_limiting", "requests_before_limit", RecordedIndex(idx))
    ELSE Put(res, "rate_limiting",
             [working |-> TRUE, requests_before_limit |-> RecordedIndex(idx)])

\* NotTriggeredEntry that also stores the number of requests sent
NotTriggeredEntryWithIndex(p, res) ==
    IF p = "security"
    THEN PutIn(PutIn(res, "rate_limiting", "triggered", FALSE),
               "rate_limiting", "requests_before_limit", MaxRequests)
    ELSE Put(res, "rate_limiting",
             [working |-> FALSE, requests_before_limit |-> MaxRequests])

\* the rate_limiting entry when the loop ended without a 429
NotTriggeredEntry(p, res) ==
    IF p = "security"
    THEN PutIn(res, "rate_limiting", "triggered", FALSE)
    ELSE Put(res, "rate_limiting", [working |-> FALSE])

\* LoopEnds without the break
LoopEndsWithoutBreak(hit, next) == next = MaxRequests

\* the for loop is left by the break after a 429 or when range(35) is used up
LoopEnds(hit, next) == hit \/ next = MaxRequests

\* one iteration of `for i in range(35)`: the POST of 'Test i' and what
\* follows it.  i is the index of the next iteration.
RateLimitRequest ==
    /\ pc = "rate_limiting"
    /\ i < MaxRequests
    /\ sent' = Append(sent, i)
    /\ ran' = ran \cup {"rate_limiting"}
    /\ \/ \* the request raised (timeout or transport error)
          /\ reqFailed' = TRUE
          /\ IF Catches(prog, "rate_limiting")
             THEN /\ i' = i + 1
                  /\ pc' = IF LoopEnds(rate_limit_hit, i + 1)
                           THEN "rate_limit_done" ELSE pc
                  /\ exc' = exc
             ELSE /\ Propagate("rate_limiting")
                  /\ i' = i
          /\ UNCHANGED <<serverCount, rate_limit_hit, first429, retryAfter, results>>
       \/ \* the server answered
          \E status \in ChatStatuses, header \in {"present", "absent"} :
             /\ RateLimited(status) \/ header = "absent"
             /\ serverCount' = Accepted(status)
             /\ IF RateLimited(status)
                THEN /\ rate_limit_hit' = TRUE
                     /\ results' = TriggeredEntry(prog, results, i)
                     /\ first429' = IF first429 = 0 THEN Len(sent') ELSE first429
                     /\ retryAfter' = IF first429 = 0 THEN header ELSE retryAfter
                ELSE UNCHANGED <<rate_limit_hit, results, first429, retryAfter>>
             /\ i' = i + 1
             /\ pc' = IF LoopEnds(rate_limit_hit', i + 1)
                      THEN "rate_limit_done" ELSE pc
             /\ UNCHANGED <<exc, reqFailed>>
    /\ UNCHANGED <<prog, tool, issued, summary, accept_clicks, dialog,
                   auditVars, verdict, errorShots, caught, executed, response,
                   observed, serverLimit, artifact, sessionVars, loopVars,
                   accVars, perfVars>>

\* the first statement after the rate-limit probe
AfterRateLimit(p) == IF p = "security" THEN "pii_wait" ELSE "pii_sanitization"

\* if not rate_limit_hit: record the probe as not triggered; the browser
\* entrypoint then sleeps 5 s
RateLimitDone ==
    /\ pc = "rate_limit_done"
    /\ results' = IF rate_limit_hit THEN results ELSE NotTriggeredEntry(prog, results)
    /\ pc' = AfterRateLimit(prog)
    /\ UNCHANGED <<prog, tool, issued, summary, accept_clicks, dialog,
                   auditVars, verdict, errorShots, caught, executed, response,
                   observed, exc, reqFailed, ran, artifact, sessionVars,
                   serverVars, rateVars, loopVars, accVars, perfVars>>

----------------------------------------------------------------------------
(* PII probe.                                                              *)

\* pii_test_cases
pii_test_cases ==
    << [test_input |-> "My email is john.doe@example.com", pii_type |-> "email"],
       [test_input |-> "Call me at 555-123-4567",          pii_type |-> "phone"],
       [test_input |-> "My SSN is 123-45-6789",            pii_type |-> "ssn"] >>

\* the literals looked for in page.content()
PiiLiterals == {"john.doe@example.com", "555-123-4567", "123-45-6789"}

\* the if/elif chain on pii_type and page_content; page_content is given as
\* the set of literals that occur in it
PiiVerdict(pii_type, page_content) ==
    IF pii_type = "email" /\ "john.doe@example.com" \notin page_content THEN "sanitized"
    ELSE IF pii_type = "phone" /\ "555-123-4567" \notin page_content THEN "sanitized"
    ELSE IF pii_type = "ssn" /\ "123-45-6789" \notin page_content THEN "sanitized"
    ELSE "not_sanitized"

\* the status of a request whose response the script did not see
NoStatus == 0

\* the server's request window is used up: it answers 429
Throttled == serverCount >= serverLimit

\* a chat request of a probe that follows the rate-limit probe: whether the
\* server rejected it with 429, and the status it answers this payload
\* with when it processes it (NoStatus when the script cannot tell)
Issued(probe, treatment) ==
    [probe |-> probe, throttled |-> Throttled, treatment |-> treatment]

\* the chat request the page sends when a message is submitted in the UI
UiSubmit == IF serverCount < serverLimit THEN serverCount + 1 ELSE serverCount

\* input_field = page.locator('textarea').first; input_field.wait_for(state='visible')
PiiWaitFor ==
    /\ pc = "pii_wait"
    /\ ran' = ran \cup {"pii_sanitization"}
    /\ \/ /\ pc' = "pii_loop"
          /\ k' = 0
          /\ exc' = exc
       \/ /\ Propagate("pii_sanitization")
          /\ k' = k
    /\ UNCHANGED <<prog, tool, issued, summary, accept_clicks, dialog,
                   auditVars, verdict, errorShots, caught, executed, response,
                   observed, reqFailed, detected_count, sessionVars,
                   serverVars, rateVars, reportVars, accVars, perfVars>>

\* one iteration of `for test_input, pii_type in pii_test_cases`: fill,
\* click, read page.content(), record the verdict
PiiCase ==
    /\ pc = "pii_loop"
    /\ k < Len(pii_test_cases)
    /\ \/ \* fill or click raised
          /\ Propagate("pii_sanitization")
          /\ UNCHANGED <<k, results, serverCount, issued>>
       \/ \* the message was submitted and page.content() raised
          /\ Propagate("pii_sanitization")
          /\ serverCount' = UiSubmit
          /\ issued' = Append(issued, Issued("pii_sanitization", NoStatus))
          /\ UNCHANGED <<k, results>>
       \/ \E page_content \in SUBSET PiiLiterals :
             /\ issued' = Append(issued, Issued("pii_sanitization", NoStatus))
             /\ results' = PutIn(results, "pii_sanitization", pii_test_cases[k + 1].pii_type,
                                 PiiVerdict(pii_test_cases[k + 1].pii_type, page_content))
             /\ serverCount' = UiSubmit
             /\ k' = IF k + 1 = Len(pii_test_cases) THEN 0 ELSE k + 1
             /\ pc' = IF k + 1 = Len(pii_test_cases) THEN "prompt_injection" ELSE pc
             /\ exc' = exc
    /\ UNCHANGED <<prog, tool, summary, accept_clicks, dialog, auditVars,
                   verdict, errorShots, caught, executed, response, observed,
                   reqFailed, ran, detected_count, serverLimit, artifact,
                   sessionVars, rateVars, accVars, perfVars>>

\* the API entrypoint sends nothing: results['pii_sanitization'] = {'implemented': True}
ApiPii ==
    /\ pc = "pii_sanitization"
    /\ results' = Put(results, "pii_sanitization", [implemented |-> TRUE])
    /\ ran' = ran \cup {"pii_sanitization"}
    /\ pc' = "prompt_injection"
    /\ k' = 0
    /\ detected_count' = 0
    /\ UNCHANGED <<prog, tool, issued, summary, accept_clicks, dialog,
                   auditVars, verdict, errorShots, caught, executed, response,
                   observed, exc, reqFailed, artifact, sessionVars,
                   serverVars, rateVars, accVars, perfVars>>

----------------------------------------------------------------------------
(* Prompt-injection probe.                                                 *)

\* len(injection_attempts)
InjectionAttempts == 3

\* the statuses the chat endpoint answers an injection attempt with when
\* it processes it
InjectionTreatments == {400, 200}

\* the status the script receives for an attempt the server treats so
InjectionStatus(treatment) == IF Throttled THEN 429 ELSE treatment

\* the most [role="alert"] elements a page shows
MaxAlerts == 1

\* what one attempt was answered with: the status of the response the
\* script received and the number of [role="alert"] elements it found
Answer(status, alerts) == [status |-> status, alerts |-> alerts]

\* browser entrypoint: fill, click, look for [role="alert"] elements
InjectionAttempt ==
    /\ pc = "prompt_injection"
    /\ prog = "security"
    /\ k < InjectionAttempts
    /\ ran' = ran \cup {"prompt_injection"}
    /\ \/ /\ Propagate("prompt_injection")
          /\ UNCHANGED <<k, results, serverCount, observed, issued>>
       \/ \E error_alerts \in 0..MaxAlerts :
             /\ issued' = Append(issued, Issued("prompt_injection", NoStatus))
             /\ results' = PutIn(results, "prompt_injection", "detected", error_alerts > 0)
             /\ observed' = Append(observed, Answer(NoStatus, error_alerts))
             /\ serverCount' = UiSubmit
             /\ k' = IF k + 1 = InjectionAttempts THEN 0 ELSE k + 1
             /\ pc' = IF k + 1 = InjectionAttempts THEN "error_handling" ELSE pc
             /\ exc' = exc
    /\ UNCHANGED <<prog, tool, summary, accept_clicks, dialog, auditVars,
                   verdict, errorShots, caught, executed, response, reqFailed,
                   detected_count, serverLimit, artifact, sessionVars,
                   rateVars, accVars, perfVars>>

\* if response.status_code == 400
InjectionDetected(status) == status = 400

\* API entrypoint: one POST per attempt
InjectionRequest ==
    /\ pc = "prompt_injection"
    /\ prog = "api"
    /\ k < InjectionAttempts
    /\ ran' = ran \cup {"prompt_injection"}
    /\ \/ /\ reqFailed' = TRUE
          /\ IF Catches(prog, "prompt_injection")
             THEN /\ k' = k + 1
                  /\ observed' = Append(observed, Answer(NoStatus, 0))
                  /\ UNCHANGED <<pc, exc>>
             ELSE /\ Propagate("prompt_injection")
                  /\ UNCHANGED <<k, observed>>
          /\ UNCHANGED <<detected_count, serverCount, issued>>
       \/ \E treatment \in InjectionTreatments :
             LET status == InjectionStatus(treatment)
             IN  /\ observed' = Append(observed, Answer(status, 0))
                 /\ issued' = Append(issued, Issued("prompt_injection", treatment))
                 /\ detected_count' = IF InjectionDetected(status)
                                      THEN detected_count + 1 ELSE detected_count
                 /\ serverCount' = Accepted(status)
                 /\ k' = k + 1
                 /\ UNCHANGED <<pc, exc, reqFailed>>
    /\ UNCHANGED <<prog, tool, summary, accept_clicks, dialog, auditVars,
                   verdict, errorShots, caught, executed, response,
                   serverLimit, sessionVars, rateVars, reportVars, accVars,
                   perfVars>>

\* after the loop: results['prompt_injection'] = {'detected': ..., 'total_attempts': ...}
InjectionRecord ==
    /\ pc = "prompt_injection"
    /\ prog = "api"
    /\ k = InjectionAttempts
    /\ results' = Put(results, "prompt_injection",
                      [detected |-> detected_count, total_attempts |-> InjectionAttempts])
    /\ pc' = "error_handling"
    /\ k' = 0
    /\ UNCHANGED <<prog, tool, issued, summary, accept_clicks, dialog,
                   auditVars, verdict, errorShots, caught, executed, response,
                   observed, exc, reqFailed, ran, detected_count, artifact,
                   sessionVars, serverVars, rateVars, accVars, perfVars>>

----------------------------------------------------------------------------
(* Error-leak probe.  Response bodies are sequences of characters.         *)

UpperToLower ==
    [A |-> "a", B |-> "b", C |-> "c", D |-> "d", E |-> "e", F |-> "f", G |-> "g",
     H |-> "h", I |-> "i", J |-> "j", K |-> "k", L |-> "l", M |-> "m", N |-> "n",
     O |-> "o", P |-> "p", Q |-> "q", R |-> "r", S |-> "s", T |-> "t", U |-> "u",
     V |-> "v", W |-> "w", X |-> "x", Y |-> "y", Z |-> "z"]

\* str.lower()
Lower(str) ==
    [n \in 1..Len(str) |-> IF str[n] \in DOMAIN UpperToLower
                           THEN UpperToLower[str[n]] ELSE str[n]]

\* needle in hay
Contains(hay, needle) ==
    \E off \in 0..(Len(hay) - Len(needle)) :
        \A n \in 1..Len(needle) : hay[off + n] = needle[n]

\* the characters of each keyword
Spell ==
    [stack    |-> <<"s", "t", "a", "c", "k">>,
     trace    |-> <<"t", "r", "a", "c", "e">>,
     internal |-> <<"i", "n", "t", "e", "r", "n", "a", "l">>,
     database |-> <<"d", "a", "t", "a", "b", "a", "s", "e">>,
     password |-> <<"p", "a", "s", "s", "w", "o", "r", "d">>,
     secret   |-> <<"s", "e", "c", "r", "e", "t">>,
     key      |-> <<"k", "e", "y">>,
     token    |-> <<"t", "o", "k", "e", "n">>]

\* sensitive_keywords
sensitive_keywords(p) ==
    IF p = "security"
    THEN <<"stack", "trace", "internal", "database", "password", "secret", "key">>
    ELSE <<"stack", "trace", "internal", "database", "password", "secret", "key", "token">>

\* leaked = [kw for kw in sensitive_keywords if kw.lower() in error_body.lower()]
Leaked(p, error_body) ==
    LET hit(kw) == Contains(Lower(error_body), Lower(Spell[kw]))
    IN  SelectSeq(sensitive_keywords(p), hit)

\* the bodies an error response may carry: "Bad Request", "Stack Trace", "TOKEN"
ErrorBodies ==
    { <<"B", "a", "d", " ", "R", "e", "q", "u", "e", "s", "t">>,
      <<"S", "t", "a", "c", "k", " ", "T", "r", "a", "c", "e">>,
      <<"T", "O", "K", "E", "N">> }

\* what the chat endpoint may answer the malformed body with
MalformedStatuses == IF serverCount >= serverLimit THEN {429} ELSE {400, 200}

\* if response.status >= 400
Inspected(status) == status >= 400

\* the error_handling entry after a response with status >= 400
ErrorEntry(p, res, status, leaked) ==
    IF p = "security"
    THEN PutIn(PutIn(res, "error_handling", "info_leak",
                     IF leaked # <<>> THEN leaked ELSE None),
               "error_handling", "status_code", status)
    ELSE Put(res, "error_handling",
             IF leaked # <<>> THEN [secure |-> FALSE, leaked |-> leaked]
                              ELSE [secure |-> TRUE])

\* the first statement after the error-leak request
AfterErrorRequest(p) == IF p = "security" THEN "save" ELSE "missing_fields"

\* the POST of 'invalid json' and the inspection of the answer
ErrorRequest ==
    /\ pc = "error_handling"
    /\ ran' = ran \cup {"error_handling"}
    /\ \/ \* the request, or the read of the body, raised
          /\ reqFailed' = TRUE
          /\ IF Catches(prog, "error_handling")
             THEN /\ pc' = AfterErrorRequest(prog)
                  /\ exc' = exc
             ELSE Propagate("error_handling")
          /\ UNCHANGED <<results, serverCount, response>>
       \/ \E status \in MalformedStatuses, text \in ErrorBodies :
             /\ ~Inspected(status)
             /\ response' = [status |-> status, text |-> text]
             /\ pc' = AfterErrorRequest(prog)
             /\ UNCHANGED <<results, serverCount, exc, reqFailed>>
       \/ \E status \in MalformedStatuses, error_body \in ErrorBodies :
             /\ Inspected(status)
             /\ response' = [status |-> status, text |-> error_body]
             /\ results' = ErrorEntry(prog, results, status, Leaked(prog, error_body))
             /\ pc' = AfterErrorRequest(prog)
             /\ UNCHANGED <<serverCount, exc, reqFailed>>
    /\ UNCHANGED <<prog, tool, issued, summary, accept_clicks, dialog,
                   auditVars, verdict, errorShots, caught, executed, observed,
                   serverLimit, artifact, sessionVars, rateVars, loopVars,
                   accVars, perfVars>>

\* API entrypoint: the POST of {} ; its outcome is only printed
MissingFieldsRequest ==
    /\ pc = "missing_fields"
    /\ ran' = ran \cup {"missing_fields"}
    /\ \/ /\ reqFailed' = TRUE
          /\ IF Catches(prog, "missing_fields")
             THEN /\ pc' = "save"
                  /\ exc' = exc
             ELSE Propagate("missing_fields")
       \/ /\ pc' = "save"
          /\ UNCHANGED <<exc, reqFailed>>
    /\ UNCHANGED <<prog, tool, issued, summary, accept_clicks, dialog,
                   auditVars, verdict, errorShots, caught, executed, response,
                   observed, sessionVars, serverVars, rateVars, loopVars,
                   reportVars, accVars, perfVars>>

----------------------------------------------------------------------------
(* Accessibility probes.                                                   *)

\* range(10)
TabPresses == 10

\* what the evaluate call returns for an element: tag, role, ariaLabel, type
Descriptor(tag, role, ariaLabel, type) ==
    [tag |-> tag, role |-> role, ariaLabel |-> ariaLabel, type |-> type]

BodyDescriptor == Descriptor("BODY", "null", "null", "null")

\* the pages a run may load: their focus order and the number of elements
\* each selector of the census matches
Pages ==
    { [focus_order |-> <<>>,
       aria |-> [textarea |-> 0, button |-> 0, main |-> 0, article |-> 0,
                 dialog |-> 0, alert |-> 0],
       semantic |-> [main |-> 0, header |-> 0, button |-> 0, article |-> 0],
       skip_links |-> 0, images_without_alt |-> 1,
       inputs_without_labels |-> 1, textareas_without_labels |-> 0],
      [focus_order |-> << Descriptor("TEXTAREA", "null", "Message", "null"),
                          Descriptor("BUTTON", "null", "Send", "submit"),
                          Descriptor("A", "null", "null", "null") >>,
       aria |-> [textarea |-> 1, button |-> 2, main |-> 1, article |-> 3,
                 dialog |-> 0, alert |-> 0],
       semantic |-> [main |-> 1, header |-> 1, button |-> 2, article |-> 3],
       skip_links |-> 1, images_without_alt |-> 0,
       inputs_without_labels |-> 0, textareas_without_labels |-> 0] }

\* the page of the entrypoints that take no census
NoCensusPage == CHOOSE pg \in Pages : pg.focus_order = <<>>

\* document.activeElement after the given number of Tab presses
ActiveAfter(order, presses) ==
    IF order = <<>> THEN BodyDescriptor
    ELSE order[((presses - 1) % Len(order)) + 1]

\* one iteration of `for i in range(10)`: press Tab, describe the active element
KeyboardTab ==
    /\ pc = "keyboard_navigation"
    /\ k < TabPresses
    /\ ran' = ran \cup {"keyboard_navigation"}
    /\ \/ /\ focusable_elements' =
                Append(focusable_elements, ActiveAfter(page.focus_order, k + 1))
          /\ k' = k + 1
          /\ UNCHANGED <<pc, exc>>
       \/ /\ Propagate("keyboard_navigation")
          /\ UNCHANGED <<focusable_elements, k>>
    /\ UNCHANGED <<prog, tool, issued, summary, accept_clicks, dialog,
                   auditVars, verdict, errorShots, caught, executed, response,
                   observed, reqFailed, detected_count, page, sessionVars,
                   serverVars, rateVars, reportVars, perfVars>>

\* the value stored as focusable_count
FocusableCount(elements) == Len(elements)

\* results['keyboard_navigation']['focusable_count'] = len(focusable_elements)
KeyboardRecord ==
    /\ pc = "keyboard_navigation"
    /\ k = TabPresses
    /\ results' = PutIn(results, "keyboard_navigation", "focusable_count",
                        FocusableCount(focusable_elements))
    /\ pc' = "enter_key"
    /\ k' = 0
    /\ UNCHANGED <<prog, tool, issued, summary, accept_clicks, dialog,
                   auditVars, verdict, errorShots, caught, executed, response,
                   observed, exc, reqFailed, ran, detected_count, artifact,
                   sessionVars, serverVars, rateVars, accVars, perfVars>>

\* the page after a message was submitted: it shows one more article
Submitted(pg) ==
    [pg EXCEPT !.aria.article = @ + 1, !.semantic.article = @ + 1]

\* focus and fill the textarea, press Enter: the message may be submitted
EnterKey ==
    /\ pc = "enter_key"
    /\ \/ /\ results' = PutIn(results, "keyboard_navigation", "enter_key", TRUE)
          /\ page' \in {page, Submitted(page)}
          /\ pc' = "escape_key"
          /\ exc' = exc
       \/ /\ Propagate("keyboard_navigation")
          /\ UNCHANGED <<results, page>>
    /\ UNCHANGED <<prog, tool, issued, summary, accept_clicks, dialog,
                   auditVars, verdict, errorShots, caught, executed, response,
                   observed, reqFailed, ran, artifact, sessionVars,
                   serverVars, rateVars, loopVars, focusable_elements,
                   perfVars>>

\* press Escape, read input_field.input_value()
EscapeKey ==
    /\ pc = "escape_key"
    /\ \/ \E input_value_empty \in BOOLEAN :
             /\ results' = PutIn(results, "keyboard_navigation", "escape_key",
                                 input_value_empty)
             /\ pc' = "aria_labels"
             /\ exc' = exc
       \/ /\ Propagate("keyboard_navigation")
          /\ results' = results
    /\ UNCHANGED <<prog, tool, issued, summary, accept_clicks, dialog,
                   auditVars, verdict, errorShots, caught, executed, response,
                   observed, reqFailed, ran, artifact, sessionVars,
                   serverVars, rateVars, loopVars, accVars, perfVars>>

\* the keys of aria_checks, in order
aria_checks == <<"textarea", "button", "main", "article", "dialog", "alert">>

\* the keys of semantic_elements, in order
semantic_elements == <<"main", "header", "button", "article">>

\* AriaCount that records only whether elements were found
AriaCountFlag(count) == IF count > 0 THEN 1 ELSE 0

\* the value stored for a locator that matched count elements
AriaCount(count) == IF count > 0 THEN count ELSE 0

\* one iteration of `for element_type, locator in aria_checks.items()`
AriaCheck ==
    /\ pc = "aria_labels"
    /\ k < Len(aria_checks)
    /\ ran' = ran \cup {"aria_labels"}
    /\ \/ LET count == page.aria[aria_checks[k + 1]]
          IN  /\ results' = PutIn(results, "aria_labels", aria_checks[k + 1],
                                  AriaCount(count))
              /\ k' = IF k + 1 = Len(aria_checks) THEN 0 ELSE k + 1
              /\ pc' = IF k + 1 = Len(aria_checks) THEN "semantic_html" ELSE pc
              /\ exc' = exc
       \/ /\ Propagate("aria_labels")
          /\ UNCHANGED <<results, k>>
    /\ UNCHANGED <<prog, tool, issued, summary, accept_clicks, dialog,
                   auditVars, verdict, errorShots, caught, executed, response,
                   observed, reqFailed, detected_count, artifact, sessionVars,
                   serverVars, rateVars, accVars, perfVars>>

\* one iteration of `for element_type, locator in semantic_elements.items()`
SemanticCheck ==
    /\ pc = "semantic_html"
    /\ k < Len(semantic_elements)
    /\ ran' = ran \cup {"semantic_html"}
    /\ \/ /\ results' = PutIn(results, "semantic_html", semantic_elements[k + 1],
                              page.semantic[semantic_elements[k + 1]])
          /\ k' = IF k + 1 = Len(semantic_elements) THEN 0 ELSE k + 1
          /\ pc' = IF k + 1 = Len(semantic_elements) THEN "focus_management" ELSE pc
          /\ exc' = exc
       \/ /\ Propagate("semantic_html")
          /\ UNCHANGED <<results, k>>
    /\ UNCHANGED <<prog, tool, issued, summary, accept_clicks, dialog,
                   auditVars, verdict, errorShots, caught, executed, response,
                   observed, reqFailed, detected_count, artifact, sessionVars,
                   serverVars, rateVars, accVars, perfVars>>

\* the computed styles the focused input may have
FocusStyles ==
    { [outline |-> "none", outlineWidth |-> "0px", boxShadow |-> "none"],
      [outline |-> "rgb(0, 0, 0) none 0px", outlineWidth |-> "0px", boxShadow |-> "none"],
      [outline |-> "rgb(0, 95, 204) solid 2px", outlineWidth |-> "2px", boxShadow |-> "none"],
      [outline |-> "none", outlineWidth |-> "0px",
       boxShadow |-> "rgb(0, 95, 204) 0px 0px 0px 2px"] }

\* 'rgb' in boxShadow, over the box shadows of FocusStyles
HasRgb(boxShadow) == boxShadow = "rgb(0, 95, 204) 0px 0px 0px 2px"

\* has_focus_indicator
HasFocusIndicator(focus_visible) ==
    \/ focus_visible.outline # "none"
    \/ focus_visible.outlineWidth # "0px"
    \/ HasRgb(focus_visible.boxShadow)

\* focus the input, read its computed style
FocusVisible ==
    /\ pc = "focus_management"
    /\ ran' = ran \cup {"focus_management"}
    /\ \/ \E focus_visible \in FocusStyles :
             /\ results' = PutIn(results, "focus_management", "visible",
                                 HasFocusIndicator(focus_visible))
             /\ pc' = "skip_links"
             /\ exc' = exc
       \/ /\ Propagate("focus_management")
          /\ results' = results
    /\ UNCHANGED <<prog, tool, issued, summary, accept_clicks, dialog,
                   auditVars, verdict, errorShots, caught, executed, response,
                   observed, reqFailed, artifact, sessionVars, serverVars,
                   rateVars, loopVars, accVars, perfVars>>

\* page.locator('a[href^="#"]').count()
SkipLinks ==
    /\ pc = "skip_links"
    /\ \/ /\ results' = PutIn(results, "focus_management", "skip_links", page.skip_links)
          /\ pc' = "images_with_alt"
          /\ exc' = exc
       \/ /\ Propagate("focus_management")
          /\ results' = results
    /\ UNCHANGED <<prog, tool, issued, summary, accept_clicks, dialog,
                   auditVars, verdict, errorShots, caught, executed, response,
                   observed, reqFailed, ran, artifact, sessionVars,
                   serverVars, rateVars, loopVars, accVars, perfVars>>

\* results['aria_labels']['images_with_alt'] = images_without_alt == 0
ImagesWithAlt ==
    /\ pc = "images_with_alt"
    /\ \/ /\ results' = PutIn(results, "aria_labels", "images_with_alt",
                              page.images_without_alt = 0)
          /\ pc' = "form_fields_labeled"
          /\ exc' = exc
       \/ /\ Propagate("aria_labels")
          /\ results' = results
    /\ UNCHANGED <<prog, tool, issued, summary, accept_clicks, dialog,
                   auditVars, verdict, errorShots, caught, executed, response,
                   observed, reqFailed, ran, artifact, sessionVars,
                   serverVars, rateVars, loopVars, accVars, perfVars>>

\* results['aria_labels']['form_fields_labeled'] = unlabeled_count == 0
FormFieldsLabeled ==
    /\ pc = "form_fields_labeled"
    /\ \/ LET unlabeled_count == page.inputs_without_labels + page.textareas_without_labels
          IN  /\ results' = PutIn(results, "aria_labels", "form_fields_labeled",
                                  unlabeled_count = 0)
              /\ pc' = "contrast"
              /\ exc' = exc
       \/ /\ Propagate("aria_labels")
          /\ results' = results
    /\ UNCHANGED <<prog, tool, issued, summary, accept_clicks, dialog,
                   auditVars, verdict, errorShots, caught, executed, response,
                   observed, reqFailed, ran, artifact, sessionVars,
                   serverVars, rateVars, loopVars, accVars, perfVars>>

\* the contrast evaluate call; its result is only printed
ContrastCheck ==
    /\ pc = "contrast"
    /\ \/ /\ pc' = "save"
          /\ exc' = exc
       \/ Propagate("contrast")
    /\ UNCHANGED <<prog, tool, issued, summary, accept_clicks, dialog,
                   auditVars, verdict, errorShots, caught, executed, response,
                   observed, reqFailed, ran, sessionVars, serverVars,
                   rateVars, loopVars, reportVars, accVars, perfVars>>

----------------------------------------------------------------------------
(* Performance probes.  Durations are in microseconds.                     *)

\* 'javascript' in r.get('type', ''), over the types of ResourceLists
IsJavascript(type) == type = "application/javascript"

\* 'css' in r.get('type', ''), over the types of ResourceLists
IsCss(type) == type = "text/css"

RECURSIVE SumSizes(_)
\* sum(r['size'] for r in rs)
SumSizes(rs) == IF rs = <<>> THEN 0 ELSE Head(rs).size + SumSizes(Tail(rs))

\* round(bytes / 1024, 2): hundredths of a KB
RoundKb(bytes) == (bytes * 100 + 512) \div 1024

\* the js/css split of the collected responses and the four bundle metrics
BundleSize ==
    /\ pc = "bundle_size"
    /\ ran' = ran \cup {"bundle_size"}
    /\ LET js_resources  == SelectSeq(resources, LAMBDA r : IsJavascript(r.type))
           css_resources == SelectSeq(resources, LAMBDA r : IsCss(r.type))
       IN  results' =
             PutIn(PutIn(PutIn(PutIn(results,
                 "bundle_size", "js_size_kb", RoundKb(SumSizes(js_resources))),
                 "bundle_size", "css_size_kb", RoundKb(SumSizes(css_resources))),
                 "bundle_size", "js_files", Len(js_resources)),
                 "bundle_size", "css_files", Len(css_resources))
    /\ pc' = "focus_time"
    /\ UNCHANGED <<prog, tool, issued, summary, accept_clicks, dialog,
                   auditVars, verdict, errorShots, caught, executed, response,
                   observed, exc, reqFailed, artifact, sessionVars,
                   serverVars, rateVars, loopVars, accVars, perfVars>>

\* the durations one interaction may take
InteractionTimes == {50000, 99999, 100000, 400000}

\* input_field.focus(), timed
FocusTime ==
    /\ pc = "focus_time"
    /\ ran' = ran \cup {"interaction"}
    /\ \/ \E focus_time \in InteractionTimes :
             /\ timing' = [timing EXCEPT !.focus_time = focus_time]
             /\ results' = PutIn(results, "interaction", "focus_time_ms",
                                 RoundMillis(focus_time))
             /\ pc' = "type_time"
             /\ exc' = exc
       \/ /\ Propagate("interaction")
          /\ UNCHANGED <<timing, results>>
    /\ UNCHANGED <<prog, tool, issued, summary, accept_clicks, dialog,
                   auditVars, verdict, errorShots, caught, executed, response,
                   observed, reqFailed, artifact, resources, sessionVars,
                   serverVars, rateVars, loopVars, accVars>>

\* input_field.type("Test message", delay=0), timed
TypeTime ==
    /\ pc = "type_time"
    /\ \/ \E type_time \in InteractionTimes :
             /\ timing' = [timing EXCEPT !.type_time = type_time]
             /\ results' = PutIn(results, "interaction", "type_time_ms",
                                 RoundMillis(type_time))
             /\ pc' = "click_time"
             /\ exc' = exc
       \/ /\ Propagate("interaction")
          /\ UNCHANGED <<timing, results>>
    /\ UNCHANGED <<prog, tool, issued, summary, accept_clicks, dialog,
                   auditVars, verdict, errorShots, caught, executed, response,
                   observed, reqFailed, ran, artifact, resources, sessionVars,
                   serverVars, rateVars, loopVars, accVars>>

\* round((focus_time + type_time + click_time) / 3, 2): hundredths of a ms
RoundAverage(total) == (2 * total + 30) \div 60

\* avg_interaction = (focus_time + type_time + click_time) / 3 and the
\* if avg_interaction < 100 / elif avg_interaction < 200 / else on it, the
\* three times in microseconds
InteractionVerdict(focus_time, type_time, click_time) ==
    LET total == focus_time + type_time + click_time
    IN  IF total < 3 * 100000 THEN "pass"
        ELSE IF total < 3 * 200000 THEN "warn"
        ELSE "fail"

\* send_button.click(), timed; then the average of the three
ClickTime ==
    /\ pc = "click_time"
    /\ \/ \E click_time \in InteractionTimes :
             /\ timing' = [timing EXCEPT !.click_time = click_time]
             /\ verdict' = [verdict EXCEPT !.interaction =
                    InteractionVerdict(timing.focus_time, timing.type_time, click_time)]
             /\ results' =
                  PutIn(PutIn(results,
                      "interaction", "click_time_ms", RoundMillis(click_time)),
                      "interaction", "avg_time_ms",
                      RoundAverage(timing.focus_time + timing.type_time + click_time))
             /\ pc' = "browser_metrics"
             /\ exc' = exc
       \/ /\ Propagate("interaction")
          /\ UNCHANGED <<timing, results, verdict>>
    /\ UNCHANGED <<prog, tool, issued, summary, accept_clicks, dialog,
                   auditVars, errorShots, caught, executed, response,
                   observed, reqFailed, ran, artifact, resources, sessionVars,
                   serverVars, rateVars, loopVars, accVars>>

\* the navigation-timing entries the browser may report, in microseconds
NavigationTimings ==
    { [domContentLoaded |-> 1200, domInteractive |-> 350000, loadComplete |-> 900000] }

\* performance.getEntriesByType('navigation')[0] and the three page_load metrics
BrowserMetrics ==
    /\ pc = "browser_metrics"
    /\ ran' = ran \cup {"page_load"}
    /\ \/ \E metrics \in NavigationTimings :
             /\ results' =
                  PutIn(PutIn(PutIn(results,
                      "page_load", "dom_content_loaded_ms", RoundMillis(metrics.domContentLoaded)),
                      "page_load", "dom_interactive_ms", RoundMillis(metrics.domInteractive)),
                      "page_load", "load_complete_ms", RoundMillis(metrics.loadComplete))
             /\ pc' = "save"
             /\ exc' = exc
       \/ /\ Propagate("browser_metrics")
          /\ results' = results
    /\ UNCHANGED <<prog, tool, issued, summary, accept_clicks, dialog,
                   auditVars, verdict, errorShots, caught, executed, response,
                   observed, reqFailed, artifact, sessionVars, serverVars,
                   rateVars, loopVars, accVars, perfVars>>

----------------------------------------------------------------------------
(* The two scenario scripts: their statements after the page load, grouped *)
(* into steps.                                                             *)

Scenario(p) ==
    IF p = "dev"
    THEN << "initial_messages", "find_input", "type_message", "send", "after_send",
            "wait_response", "error_alerts", "tab_navigation", "enter_key",
            "mobile_viewport", "tablet_viewport", "desktop_viewport", "components",
            "final_screenshot" >>
    ELSE << "title", "chat_input", "send_button", "messages", "page_errors",
            "screenshot" >>

\* the next step of the scenario: it completes or raises
ScenarioStep ==
    /\ pc = "scenario"
    /\ k < Len(Scenario(prog))
    /\ executed' = Append(executed, Scenario(prog)[k + 1])
    /\ \/ /\ k' = k + 1
          /\ pc' = IF k + 1 = Len(Scenario(prog)) THEN "finally" ELSE pc
          /\ exc' = exc
       \/ /\ Propagate(Scenario(prog)[k + 1])
          /\ k' = k
    /\ UNCHANGED <<prog, tool, issued, summary, accept_clicks, dialog,
                   auditVars, verdict, errorShots, caught, response, observed,
                   reqFailed, ran, detected_count, sessionVars, serverVars,
                   rateVars, reportVars, accVars, perfVars>>

----------------------------------------------------------------------------
(* Report.                                                                 *)

\* with open(path, 'w') as f: the file is created or truncated
Save ==
    /\ pc = "save"
    /\ \/ /\ artifact' = [state |-> "empty", content |-> EmptyDict]
          /\ pc' = "dump"
          /\ exc' = exc
       \/ /\ Propagate("save")
          /\ artifact' = artifact
    /\ UNCHANGED <<prog, tool, issued, summary, accept_clicks, dialog,
                   auditVars, verdict, errorShots, caught, executed, response,
                   observed, reqFailed, ran, results, sessionVars, serverVars,
                   rateVars, loopVars, accVars, perfVars>>

\* d.get(key) is truthy, for a key whose values are booleans
GetTrue(d, key) == key \in DOMAIN d /\ d[key]

\* "n/3" as the summary prints it
Ratio(n) == <<"0/3", "1/3", "2/3", "3/3">>[n + 1]

\* the Error Handling line: `not results['error_handling'].get('info_leak')`
\* in the browser entrypoint, `results.get('error_handling', {}).get('secure')`
\* in the API entrypoint
ErrorHandlingLine(p, res) ==
    IF p = "security"
    THEN IF "info_leak" \notin DOMAIN res.error_handling
            \/ res.error_handling.info_leak = <<>>
         THEN "Secure" ELSE "May leak info"
    ELSE IF "error_handling" \in DOMAIN res /\ GetTrue(res.error_handling, "secure")
         THEN "Secure" ELSE "May leak info"

\* the four lines of the SECURITY SUMMARY
Summary(p, res) ==
    IF p = "security"
    THEN [rate_limiting |->
              IF GetTrue(res.rate_limiting, "triggered") THEN "Working" ELSE "Not tested",
          pii_sanitization |->
              Ratio(Cardinality({c \in DOMAIN res.pii_sanitization :
                                    res.pii_sanitization[c] = "sanitized"})),
          prompt_injection |->
              IF GetTrue(res.prompt_injection, "detected")
              THEN "Detected" ELSE "Not detected",
          error_handling |-> ErrorHandlingLine(p, res)]
    ELSE [rate_limiting |->
              IF GetTrue(res.rate_limiting, "working") THEN "Working" ELSE "Not working",
          pii_sanitization |->
              IF GetTrue(res.pii_sanitization, "implemented")
              THEN "Implemented" ELSE "Not implemented",
          prompt_injection |-> Ratio(res.prompt_injection.detected),
          error_handling |-> ErrorHandlingLine(p, res)]

\* json.dump(results, f, indent=2), then the summary is printed
Dump ==
    /\ pc = "dump"
    /\ artifact' = [state |-> "written", content |-> results]
    /\ summary' = IF prog \in SecurityProgs THEN Summary(prog, results) ELSE summary
    /\ pc' = IF prog \in BrowserProgs THEN "finally" ELSE "done"
    /\ UNCHANGED <<prog, tool, issued, accept_clicks, dialog, auditVars,
                   verdict, errorShots, caught, executed, response, observed,
                   exc, reqFailed, ran, results, sessionVars, serverVars,
                   rateVars, loopVars, accVars, perfVars>>

----------------------------------------------------------------------------
(* The Lighthouse audit.  Scores are in thousandths.                       *)

\* a JSON number and JSON null, as json.load returns them
Number(n) == [null |-> FALSE, value |-> n]

Null == [null |-> TRUE, value |-> 0]

\* dict.get(key, default)
Get(d, key, default) == IF key \in DOMAIN d THEN d[key] ELSE default

\* the scores a category may have
Scores == {0, 699, 700, 899, 900, 1000}

\* the category_data a report may hold: without a score, with a null
\* score, without a title, and with each of the scores
CategoryData ==
    {[title |-> "Title"], [score |-> Null, title |-> "Title"], [score |-> Number(900)]}
        \cup {[score |-> Number(n), title |-> "Title"] : n \in Scores}

\* the categories mappings the report file may hold
Reports ==
    {<<>>} \cup
    { << [category_name |-> "performance", category_data |-> first],
         [category_name |-> "accessibility", category_data |-> second] >> :
        first \in CategoryData, second \in CategoryData }

\* score * 100, in thousandths
Rescale(score) == score * 100

\* if score >= 90 / elif score >= 70 / else
StatusOf(score) ==
    IF score >= 90000 THEN "EXCELLENT"
    ELSE IF score >= 70000 THEN "GOOD"
    ELSE "NEEDS IMPROVEMENT"

\* return <value>
Return(value) ==
    /\ returned' = <<value>>
    /\ pc' = "done"

\* how subprocess.run(['lighthouse', '--version'], ...) may end: returncode
\* 0, another returncode, FileNotFoundError, another exception
VersionChecks == {"ok", "nonzero", "not_found", "error"}

\* Missing without the except FileNotFoundError clause
MissingOnlyNonzero(version) == version = "nonzero"

\* the version check found the tool missing: the function returns False
Missing(version) == version \in {"nonzero", "not_found"}

\* how subprocess.run(cmd, ..., timeout=120) may end: returncode 0, another
\* returncode, TimeoutExpired, another exception
AuditRuns == {"ok", "nonzero", "timeout", "error"}

\* what the script finds at output_path: no file, a file that open or
\* json.load raises on, a report
ReportFiles == {"missing", "unreadable", "read"}

\* subprocess.run(['lighthouse', '--version'], ...)
CheckInstalled ==
    /\ pc = "version_check"
    /\ \E version \in VersionChecks :
          /\ tool' = [tool EXCEPT !.version = version]
          /\ IF Missing(version)
             THEN Return(FALSE)
             ELSE /\ pc' = "run_audit"
                  /\ returned' = returned
    /\ UNCHANGED <<prog, issued, summary, accept_clicks, dialog, categories,
                   classified, verdict, errorShots, caught, executed,
                   response, observed, exc, reqFailed, ran, sessionVars,
                   serverVars, rateVars, loopVars, reportVars, accVars,
                   perfVars>>

\* subprocess.run(cmd, ..., timeout=120)
RunAudit ==
    /\ pc = "run_audit"
    /\ \E audit \in AuditRuns :
          /\ tool' = [tool EXCEPT !.audit = audit]
          /\ IF audit = "ok"
             THEN /\ pc' = "read_report"
                  /\ returned' = returned
             ELSE Return(FALSE)
    /\ UNCHANGED <<prog, issued, summary, accept_clicks, dialog, categories,
                   classified, verdict, errorShots, caught, executed,
                   response, observed, exc, reqFailed, ran, sessionVars,
                   serverVars, rateVars, loopVars, reportVars, accVars,
                   perfVars>>

\* os.path.exists(output_path); json.load; report.get('categories', {})
ReadReport ==
    /\ pc = "read_report"
    /\ \E file \in ReportFiles :
          /\ tool' = [tool EXCEPT !.report = file]
          /\ IF file = "read"
             THEN /\ categories' \in Reports
                  /\ pc' = "classify"
                  /\ returned' = returned
             ELSE /\ Return(FALSE)
                  /\ categories' = categories
    /\ k' = 0
    /\ UNCHANGED <<prog, issued, summary, accept_clicks, dialog, classified,
                   verdict, errorShots, caught, executed, response, observed,
                   exc, reqFailed, ran, detected_count, sessionVars,
                   serverVars, rateVars, reportVars, accVars, perfVars>>

\* one iteration of `for category_name, category_data in categories.items()`
ClassifyCategory ==
    /\ pc = "classify"
    /\ k < Len(categories)
    /\ LET category_name == categories[k + 1].category_name
           category_data == categories[k + 1].category_data
           raw           == Get(category_data, "score", Number(0))
       IN  IF raw.null
           THEN \* None * 100 raises TypeError: except Exception, return False
                /\ Return(FALSE)
                /\ UNCHANGED <<k, classified>>
           ELSE LET score == Rescale(raw.value)
                    title == Get(category_data, "title", category_name)
                IN  /\ classified' = Append(classified,
                            [title |-> title, score |-> score, status |-> StatusOf(score)])
                    /\ k' = k + 1
                    /\ UNCHANGED <<pc, returned>>
    /\ UNCHANGED <<prog, tool, issued, summary, accept_clicks, dialog,
                   categories, verdict, errorShots, caught, executed,
                   response, observed, exc, reqFailed, ran, detected_count,
                   sessionVars, serverVars, rateVars, reportVars, accVars,
                   perfVars>>

\* after the loop: return True
AuditDone ==
    /\ pc = "classify"
    /\ k = Len(categories)
    /\ Return(TRUE)
    /\ UNCHANGED <<prog, tool, issued, summary, accept_clicks, dialog,
                   categories, classified, verdict, errorShots, caught,
                   executed, response, observed, exc, reqFailed, ran,
                   sessionVars, serverVars, rateVars, loopVars, reportVars,
                   accVars, perfVars>>

----------------------------------------------------------------------------

\* the first statement of each entrypoint
FirstStatement(p) ==
    CASE p \in BrowserProgs -> "launch"
      [] p = "api"          -> "rate_limiting"
      [] OTHER              -> "version_check"

Init ==
    /\ prog \in Progs
    /\ pc = FirstStatement(prog)
    /\ browser = "none"
    /\ closeCount = 0
    /\ exc = "none"
    /\ results = InitialResults(prog)
    /\ artifact = [state |-> "old", content |-> EmptyDict]
    /\ serverLimit \in Limits
    /\ serverCount = 0
    /\ i = 0
    /\ rate_limit_hit = FALSE
    /\ sent = <<>>
    /\ first429 = 0
    /\ retryAfter = "none"
    /\ reqFailed = FALSE
    /\ k = 0
    /\ detected_count = 0
    /\ ran = {}
    /\ page \in (IF prog = "accessibility" THEN Pages ELSE {NoCensusPage})
    /\ focusable_elements = <<>>
    /\ timing = [load_time |-> 0, focus_time |-> 0, type_time |-> 0, click_time |-> 0]
    /\ resources = <<>>
    /\ observed = <<>>
    /\ response = [status |-> NoStatus, text |-> <<>>]
    /\ executed = <<>>
    /\ caught = <<>>
    /\ verdict = [load |-> "none", interaction |-> "none"]
    /\ categories = <<>>
    /\ classified = <<>>
    /\ returned = <<>>
    /\ dialog = "unseen"
    /\ accept_clicks = 0
    /\ summary = EmptyDict
    /\ issued = <<>>
    /\ tool = [version |-> "none", audit |-> "none", report |-> "none"]
    /\ errorShots = 0

Next ==
    \/ Launch
    \/ Setup
    \/ Goto
    \/ InitialLoad
    \/ Consent
    \/ RateLimitRequest
    \/ RateLimitDone
    \/ PiiWaitFor
    \/ PiiCase
    \/ ApiPii
    \/ InjectionAttempt
    \/ InjectionRequest
    \/ InjectionRecord
    \/ ErrorRequest
    \/ MissingFieldsRequest
    \/ KeyboardTab
    \/ KeyboardRecord
    \/ EnterKey
    \/ EscapeKey
    \/ AriaCheck
    \/ SemanticCheck
    \/ FocusVisible
    \/ SkipLinks
    \/ ImagesWithAlt
    \/ FormFieldsLabeled
    \/ ContrastCheck
    \/ BundleSize
    \/ FocusTime
    \/ TypeTime
    \/ ClickTime
    \/ BrowserMetrics
    \/ ScenarioStep
    \/ Save
    \/ Dump
    \/ Except
    \/ Finally
    \/ CheckInstalled
    \/ RunAudit
    \/ ReadReport
    \/ ClassifyCategory
    \/ AuditDone

Spec == Init /\ [][Next]_vars

----------------------------------------------------------------------------
(* Properties.                                                             *)

Ended == pc \in {"done", "raised"}

\* the rate_limiting entry marks the probe as triggered (or not)
MarkedTriggered(p, entry, value) ==
    IF p = "security"
    THEN "triggered" \in DOMAIN entry /\ entry.triggered = value
    ELSE "working" \in DOMAIN entry /\ entry.working = value

\* C1: in an accessibility, performance or browser security run, every
\* metric stored in results is, once the entrypoint has exited, in the
\* written JSON artifact with the value stored -- also when a later probe
\* raised or the run ended with a fatal error.
C1_StoredMetricsArePersisted ==
    (prog \in {"accessibility", "performance", "security"} /\ Ended) =>
        \A domain \in DOMAIN results : \A metric \in DOMAIN results[domain] :
            /\ artifact.state = "written"
            /\ domain \in DOMAIN artifact.content
            /\ metric \in DOMAIN artifact.content[domain]
            /\ artifact.content[domain][metric] = results[domain][metric]

\* C2: a report written by a security run has exactly the four top-level
\* keys rate_limiting, pii_sanitization, prompt_injection, error_handling.
C2_ReportHasDeclaredKeys ==
    (prog \in SecurityProgs /\ artifact.state = "written") =>
        DOMAIN artifact.content = SecurityKeys

\* C3: in the browser security run no exception raised inside one of the
\* four sub-probes leaves that sub-probe.
C3_SubProbesAreFaultContained ==
    prog = "security" => exc \notin SecurityKeys

\* C4: once launched, the browser has been closed exactly once when the
\* entrypoint returns or raises.
C4_BrowserClosedExactlyOnce ==
    (browser # "none" /\ Ended) => closeCount = 1

\* C5: the rate-limit probe sends 'Test 0', 'Test 1', ... in this order,
\* sends nothing after the first 429, marks the result triggered and
\* records the 1-based position of the request that was answered 429.
C5_StopsAtFirst429 ==
    /\ sent = [n \in 1..Len(sent) |-> n - 1]
    /\ first429 = 0 => ~rate_limit_hit
    /\ first429 # 0 =>
          /\ rate_limit_hit
          /\ Len(sent) = first429
          /\ MarkedTriggered(prog, results.rate_limiting, TRUE)
          /\ results.rate_limiting.requests_before_limit = first429

\* a 429 on a request that is not the first ended the loop
C5_Witness ==
    /\ pc = "rate_limit_done"
    /\ first429 = ServerLimit + 1
    /\ retryAfter = "present"

\* C6: against the server that accepts 30 requests per window, the stored
\* requests_before_limit is the number of requests the server accepted
\* before the first 429.
C6_RequestsBeforeLimitIsAcceptedCount ==
    (pc = "rate_limit_done" /\ rate_limit_hit /\ serverLimit = ServerLimit) =>
        results.rate_limiting.requests_before_limit = serverCount

\* C7: when no response of the rate-limit probe has status 429, the probe
\* raises nothing, has sent exactly 35 requests when it is over, records
\* the not-triggered result without requests_before_limit, and the run
\* does not end before the next probe was entered.
C7_ExhaustedWithout429 ==
    (prog \in SecurityProgs /\ "rate_limiting" \in ran /\ first429 = 0) =>
        /\ exc # "rate_limiting"
        /\ pc # "rate_limiting" => Len(sent) = MaxRequests
        /\ pc \notin {"rate_limiting", "rate_limit_done"} =>
              /\ MarkedTriggered(prog, results.rate_limiting, FALSE)
              /\ "requests_before_limit" \notin DOMAIN results.rate_limiting
        /\ pc \in {"except", "finally", "done", "raised"} =>
              "pii_sanitization" \in ran

\* no request of the probe was accepted or answered 429, and the next
\* probe was entered
C7_Witness ==
    /\ prog \in SecurityProgs
    /\ first429 = 0
    /\ Len(sent) = MaxRequests
    /\ reqFailed
    /\ serverCount = 0
    /\ "pii_sanitization" \in ran

\* C8: when the rate-limit probe was triggered, the rate_limiting entry of
\* the written report has a field that tells whether the 429 response
\* carried a Retry-After header.
C8_RetryAfterIsRecorded ==
    (prog \in SecurityProgs /\ artifact.state = "written" /\ first429 # 0) =>
        \E field \in DOMAIN artifact.content.rate_limiting :
            /\ field \notin {"triggered", "working", "requests_before_limit"}
            /\ artifact.content.rate_limiting[field] = (retryAfter = "present")

\* C9: in the API security run no request that raised or timed out stops
\* its probe or the run: the rate-limit loop goes on to its 35th request
\* or a 429, every later probe is entered, and the run ends only after the
\* report write was attempted.
C9_ApiRequestFailuresAreContained ==
    prog = "api" =>
        /\ exc \in {"none", "save"}
        /\ pc # "rate_limiting" => (first429 # 0 \/ Len(sent) = MaxRequests)
        /\ (pc \in {"save", "dump"} \/ Ended) =>
              ran = {"rate_limiting", "pii_sanitization", "prompt_injection",
                     "error_handling", "missing_fields"}
        /\ Ended => (artifact.state = "written" \/ exc = "save")

\* an API run that had a request fail wrote its report
C9_Witness ==
    /\ prog = "api"
    /\ reqFailed
    /\ first429 = 0
    /\ serverCount < MaxRequests
    /\ artifact.state = "written"

\* C10: when a browser security run that entered the PII probe has ended,
\* each of email, phone and ssn has exactly one recorded value, one of
\* sanitized, not_sanitized and error.
C10_EveryPiiCategoryHasVerdict ==
    (prog = "security" /\ "pii_sanitization" \in ran /\ Ended) =>
        /\ DOMAIN results.pii_sanitization = {"email", "phone", "ssn"}
        /\ \A c \in DOMAIN results.pii_sanitization :
              results.pii_sanitization[c] \in {"sanitized", "not_sanitized", "error"}

\* C11: when the prompt-injection probe is over, all three phrasings were
\* submitted and the recorded entry gives the number of attempts and the
\* number of them that were detected, an attempt being detected exactly
\* when it was answered with a 4xx status or an alert element appeared.
C11_DetectedRatioCountsAllAttempts ==
    (prog \in SecurityProgs /\ "prompt_injection" \in ran
        /\ pc \notin {"prompt_injection", "except", "finally", "raised"}) =>
        LET entry == results.prompt_injection
            detected(o) == (o.status >= 400 /\ o.status < 500) \/ o.alerts > 0
        IN  /\ Len(observed) = InjectionAttempts
            /\ DOMAIN entry = {"detected", "total_attempts"}
            /\ entry.total_attempts = InjectionAttempts
            /\ entry.detected =
                  Cardinality({n \in 1..Len(observed) : detected(observed[n])})

\* the keywords the error_handling entry reports as leaked
ReportedLeak(p, entry) ==
    IF p = "security" THEN entry.info_leak
    ELSE IF entry.secure THEN <<>> ELSE entry.leaked

\* C12: when the malformed request was answered with a status >= 400, the
\* error_handling entry lists, once each, exactly those of the eight
\* keywords stack, trace, internal, database, password, secret, key, token
\* that occur case-insensitively in the response body, and reports the
\* response as secure exactly when there is none; when the status was
\* below 400 the entry stays as it was before the request.
C12_SecureIffNoKeywordInBody ==
    (prog \in SecurityProgs /\ response.status # NoStatus) =>
        LET keywords == {"stack", "trace", "internal", "database", "password",
                         "secret", "key", "token"}
            present  == {kw \in keywords : Contains(Lower(response.text), Spell[kw])}
        IN  IF response.status >= 400
            THEN /\ "error_handling" \in DOMAIN results
                 /\ results.error_handling # EmptyDict
                 /\ LET leaked == ReportedLeak(prog, results.error_handling)
                    IN  /\ {leaked[n] : n \in 1..Len(leaked)} = present
                        /\ Len(leaked) = Cardinality(present)
                 /\ prog = "api" => results.error_handling.secure = (present = {})
            ELSE "error_handling" \in DOMAIN results =>
                    results.error_handling = EmptyDict

ScenarioProgs == {"dev", "production"}

\* C13: the steps of a scenario are started in their defined order, and a
\* step that fails does not keep the later steps from being run: when a
\* scenario run that started its steps has ended, every step was started.
C13_FailedStepDoesNotStopScenario ==
    prog \in ScenarioProgs =>
        /\ executed = SubSeq(Scenario(prog), 1, Len(executed))
        /\ (Ended /\ executed # <<>>) => Len(executed) = Len(Scenario(prog))

\* C14: when page.goto failed in a browser entrypoint, the top-level
\* handler catches the error once and has attempted one screenshot while
\* the browser is still open, and the entrypoint then closes the browser
\* and raises.
C14_LoadFailureCaughtOnceWithScreenshot ==
    (prog \in BrowserProgs /\ caught # <<>> /\ caught[1] = "page_load") =>
        /\ caught = <<"page_load">>
        /\ errorShots = 1
        /\ pc = "finally" => browser = "open"
        /\ pc \in {"finally", "raised"}
        /\ pc = "raised" => closeCount = 1

\* C15: the file at the report path is at every moment either the previous
\* complete file or the complete new report, never empty or partial.
C15_ArtifactNeverPartial ==
    /\ artifact.state \in {"old", "written"}
    /\ artifact.state = "written" => artifact.content = results

\* C16: in a performance run every measured load time has exactly one
\* verdict, pass below 3.0 s, warn from 3.0 s to below 5.0 s, fail from
\* 5.0 s on; and every average (focus + type + click) / 3 has exactly one
\* verdict, pass below 100 ms, warn from 100 ms to below 200 ms, fail from
\* 200 ms on.
C16_VerdictsMatchThresholds ==
    prog = "performance" =>
        /\ "total_time" \in DOMAIN results.page_load =>
              LET seconds3 == 3000000
                  seconds5 == 5000000
                  t == timing.load_time
              IN  /\ verdict.load \in {"pass", "warn", "fail"}
                  /\ verdict.load = "pass" <=> t < seconds3
                  /\ verdict.load = "warn" <=> (t >= seconds3 /\ t < seconds5)
                  /\ verdict.load = "fail" <=> t >= seconds5
        /\ "avg_time_ms" \in DOMAIN results.interaction =>
              LET sum == timing.focus_time + timing.type_time + timing.click_time
              IN  /\ verdict.interaction \in {"pass", "warn", "fail"}
                  /\ verdict.interaction = "pass" <=> sum < 300000
                  /\ verdict.interaction = "warn" <=> (sum >= 300000 /\ sum < 600000)
                  /\ verdict.interaction = "fail" <=> sum >= 600000

\* a load of exactly 3.0 s was classified warn and an average of exactly
\* 200 ms was classified fail
C16_Witness ==
    /\ prog = "performance"
    /\ timing.load_time = 3000000
    /\ verdict.load = "warn"
    /\ timing.focus_time + timing.type_time + timing.click_time = 600000
    /\ verdict.interaction = "fail"

\* C17: when the audit has read its report and returned, every category
\* of the report has its result line, in order; a category with a score
\* is EXCELLENT when score * 100 >= 90, GOOD when >= 70 and < 90, NEEDS
\* IMPROVEMENT otherwise; a category without a usable score has a line too.
C17_EveryCategoryClassified ==
    (prog = "lighthouse" /\ returned # <<>> /\ categories # <<>>) =>
        /\ Len(classified) = Len(categories)
        /\ \A n \in 1..Len(classified) :
              LET data == categories[n].category_data
                  line == classified[n]
              IN  /\ line.status \in {"EXCELLENT", "GOOD", "NEEDS IMPROVEMENT"}
                  /\ ("score" \in DOMAIN data /\ ~data.score.null) =>
                        LET thousandths == data.score.value
                        IN  /\ line.status = "EXCELLENT" <=> thousandths >= 900
                            /\ line.status = "GOOD" <=>
                                  (thousandths >= 700 /\ thousandths < 900)
                            /\ line.status = "NEEDS IMPROVEMENT" <=> thousandths < 700

\* C18: in a browser entrypoint the Accept button is clicked at most
\* once, and only when a visible dialog and an Accept button were there;
\* when there was no dialog, a hidden one, or a visible one without an
\* Accept button, the consent step raises nothing.
C18_AcceptClickedAtMostOnce ==
    prog \in BrowserProgs =>
        /\ accept_clicks <= 1
        /\ accept_clicks = 1 => dialog = "visible"
        /\ dialog \in {"absent", "hidden", "visible_without_accept"} =>
              /\ exc # "consent"
              /\ "consent" \notin {caught[n] : n \in 1..Len(caught)}
              /\ pc # "consent"

\* the counts of the ARIA and semantic census recorded so far are the
\* counts a census taken on the page now records
CensusRepeats ==
    /\ \A t \in DOMAIN results.aria_labels \cap DOMAIN page.aria :
          results.aria_labels[t] = page.aria[t]
    /\ \A t \in DOMAIN results.semantic_html :
          results.semantic_html[t] = page.semantic[t]

\* C19: in an accessibility run no step of the ARIA and semantic census
\* changes the page, and at every moment a census of the unchanged page
\* yields, for every selector, the count already recorded for it.
C19_CensusIsPureRead ==
    /\ [](prog = "accessibility" => CensusRepeats)
    /\ [][(pc \in {"aria_labels", "semantic_html"}) => (page' = page)]_vars

\* the whole census was taken on a page that a submitted message had
\* changed before
C19_Witness ==
    /\ prog = "accessibility"
    /\ pc = "focus_management"
    /\ results.semantic_html.article = 4
    /\ results.aria_labels.button = 2

\* C20: the focus census has pressed Tab 10 times and recorded one
\* descriptor per press when it stores focusable_count, and the stored
\* value is the number of distinct descriptors among the 10.
C20_FocusableCountIsDistinctCount ==
    (prog = "accessibility"
        /\ "focusable_count" \in DOMAIN results.keyboard_navigation) =>
        /\ Len(focusable_elements) = 10
        /\ results.keyboard_navigation.focusable_count =
              Cardinality({focusable_elements[n] : n \in 1..Len(focusable_elements)})

\* C21: when the summary of a security run reports Error Handling as
\* secure, the malformed request was answered with a status >= 400 and a
\* body that contains none of the sensitive keywords.
C21_SecureOnlyWhenObserved ==
    (prog \in SecurityProgs /\ summary # EmptyDict
        /\ summary.error_handling = "Secure") =>
        /\ response.status >= 400
        /\ \A kw \in DOMAIN Spell : ~Contains(Lower(response.text), Spell[kw])

\* C22: in a security run no chat request of the PII or prompt-injection
\* probe is rejected because the rate-limit probe used up the server's
\* request window, and the recorded number of detected injection attempts
\* is the number of attempts whose payload the server answers with 400.
C22_LaterProbesIndependentOfRateLimit ==
    prog \in SecurityProgs =>
        /\ \A n \in 1..Len(issued) : ~issued[n].throttled
        /\ (prog = "api" /\ "prompt_injection" \in DOMAIN results) =>
              results.prompt_injection.detected =
                 Cardinality({n \in 1..Len(issued) : issued[n].treatment = 400})

\* C23: run_lighthouse_audit raises nothing and ends by returning True or
\* False; it returns True exactly when the audit exited with code 0, the
\* report was read and every category got its result line; and the audit
\* is not launched, and False is returned, once the version check exited
\* non-zero or did not find the tool.
C23_AuditAlwaysReturnsBoolean ==
    prog = "lighthouse" =>
        /\ exc = "none"
        /\ pc # "raised"
        /\ returned \in {<<>>, <<TRUE>>, <<FALSE>>}
        /\ pc = "done" <=> returned # <<>>
        /\ pc = "done" =>
              (returned = <<TRUE>> <=>
                  /\ tool.audit = "ok"
                  /\ tool.report = "read"
                  /\ Len(classified) = Len(categories))
        /\ tool.version \in {"nonzero", "not_found"} =>
              /\ tool.audit = "none"
              /\ returned = <<FALSE>>

\* the audit returned True after a version check that raised, with both
\* categories of its report classified
C23_Witness ==
    /\ prog = "lighthouse"
    /\ returned = <<TRUE>>
    /\ tool.version = "error"
    /\ Len(classified) = 2

====
